---------------------------- MODULE Spec2Model ----------------------------
(***************************************************************************)
(* Flow Story Generator: the content script's automation loop              *)
(* (content/content.js) and the background download queue                  *)
(* (background/background.js).                                             *)
(*                                                                         *)
(* Each context is single-threaded: code runs to completion between two    *)
(* awaits, so one action is one synchronous segment (a message handler,    *)
(* or the continuation of a loop after the await it was suspended in).     *)
(***************************************************************************)
EXTENDS Integers, Sequences, FiniteSets, TLC

\* ------------------------------------------------------------- bounds
MaxPrompts == 2      \* prompts per START_GENERATION: 1..MaxPrompts
MaxRetries == 3      \* settings.retries sent by the popup: 0..MaxRetries
MaxStarts  == 2      \* START_GENERATION messages in one behaviour

LoopIds == 1..MaxStarts

\* ------------------------------------------------------------- state
VARIABLES
  \* content.js automationState
  isRunning, isPaused, currentIndex, promptsLen, settingsRetries,
  \* one entry per runAutomation() invocation: its locals and its position
  loops,
  \* chrome.runtime.sendMessage calls of each invocation, in emission order
  emitted,
  \* number of START_GENERATION messages handled so far
  nStarted,
  \* the run status of the specification (Idle, Running, Paused, Stopped,
  \* Completed), kept beside the flags that implement it
  status,
  \* the page: how many img elements match SELECTORS.generatedImages
  pageImages,
  \* automationState.generatedImages
  generatedImages,
  \* the popup is open: its handleMessage listener is registered
  attached,
  \* promises of chrome.runtime.sendMessage calls of the content script that
  \* were rejected because the popup was not there; nobody awaits them
  unheard,
  \* popup.js state.isRunning and state.isPaused of the open popup
  popup

runVars == <<isRunning, isPaused, currentIndex, promptsLen, settingsRetries,
             loops, emitted, nStarted, status, pageImages, generatedImages,
             attached, unheard, popup>>

\* background.js downloadState, the position of processDownloadQueue, the
\* response to the last DOWNLOAD_IMAGES, and what the active run did
VARIABLES
  isDownloading, queue, completed, total, prefix, delay,
  \* processDownloadQueue's locals: pc ("idle", "downloading", "sleeping"),
  \* the index i, the item and the filename of the download in flight
  dl,
  \* sendResponse of the last DOWNLOAD_IMAGES; whileActive: a run was active
  \* when the request arrived
  dlResponse,
  \* the request that started the active (or last) run; afterDrain: an
  \* earlier run had drained when this one started
  dlRun,
  \* downloads attempted by the active (or last) run, in order
  saved,
  \* broadcastMessage calls of the active (or last) run, in order
  dlEvents

dlVars == <<isDownloading, queue, completed, total, prefix, delay, dl,
            dlResponse, dlRun, saved, dlEvents>>

\* The page as the wait primitives and extractAllImages see it
VARIABLES
  \* the wait in progress (or the last one): its promise, its MutationObserver
  \* and its setInterval timer
  wait,
  \* how many elements of the page match the wait's selector(s)
  present,
  \* Date.now() - startTime > timeout for the wait in progress
  late,
  \* the img elements matching SELECTORS.generatedImages, in DOM order
  domImages,
  \* sendResponse of the last GET_ALL_IMAGES
  imagesResponse

pageVars == <<wait, present, late, domImages, imagesResponse>>

\* One call of processPrompt followed step by step (see NoProc).
VARIABLES proc

stepVars == <<proc>>

vars == <<runVars, dlVars, pageVars, stepVars>>

\* ------------------------------------------------------------- events
ProgressEv(current, item) ==
  [type |-> "Progress", current |-> current, item |-> item, fatal |-> FALSE]

ErrorEv(promptNo, item, fatal) ==
  [type |-> "Error", current |-> promptNo, item |-> item, fatal |-> fatal]

CompleteEv ==
  [type |-> "Complete", current |-> 0, item |-> 0, fatal |-> FALSE]

\* ------------------------------------------------------------- loop locals
\* pc: where the invocation is suspended
\*   "idle"      not started
\*   "attempt"   inside one attempt of processPrompt (awaiting its steps)
\*   "backoff"   await sleep(2000) between two attempts
\*   "delay"     await sleep(settings.delay) between two prompts
\*   "pausewait" await sleep(500) inside while (isPaused)
\*   "resolved"  await processPrompt(...) on a call that returned without
\*               suspending (no attempt was made); the loop resumes in a
\*               microtask, before any other message or timer is handled
\*   "done"      runAutomation returned
\* i, n: the for-loop index and prompts.length of the captured prompts
\* attempt, retries: processPrompt's loop variable and its captured retries
\* tried, fails: attempts begun / failed for the item in flight
\* lastItem..lastSuccess: what processPrompt did for the last finished item
\* heldAt: the item in flight when PAUSE_GENERATION arrived (-1: none, or
\*         a RESUME/STOP arrived since)
\* stopSeen: STOP_GENERATION arrived while this invocation was alive
\* stopInPauseAt: items begun when STOP arrived during the pause wait (-1: none)
\* restartAt: items begun when a later START_GENERATION arrived (-1: none)
\* stopInFlightAt: the item in flight when STOP_GENERATION arrived (-1: none)
\* stopAt: items begun when STOP_GENERATION first arrived (-1: none)
NoLoop ==
  [pc |-> "idle", i |-> 0, n |-> 0, attempt |-> 0, retries |-> 0,
   tried |-> 0, fails |-> 0,
   lastItem |-> -1, lastTried |-> 0, lastFails |-> 0, lastRetries |-> 0,
   lastSuccess |-> FALSE,
   heldAt |-> -1, stopSeen |-> FALSE, stopInPauseAt |-> -1, restartAt |-> -1,
   stopInFlightAt |-> -1, stopAt |-> -1]

Alive(L) == L.pc \notin {"idle", "done"}

\* No continuation is waiting in the microtask queue: the next thing to run
\* is a message handler or a timer callback.
Quiescent == \A l \in DOMAIN loops : loops[l].pc # "resolved"
InFlight(L) == L.pc \in {"attempt", "backoff"}

\* Number of items an invocation has begun: its start-of-item Progress events.
RECURSIVE CountStarts(_)
CountStarts(ev) ==
  IF ev = <<>> THEN 0
  ELSE (IF Head(ev).type = "Progress" /\ Head(ev).current = Head(ev).item
        THEN 1 ELSE 0) + CountStarts(Tail(ev))

Begun(l) == CountStarts(emitted[l])

\* ------------------------------------------------------------- artifacts
\* An img element of the page: its src, and the data-index attribute of its
\* closest ancestor that has one (hasIndex: there is such an ancestor).
\* One entry of extractAllImages for the img at forEach position index
\* (lines 555-566).
ImageData(img, index) ==
  [url |-> img.url,
   order |-> IF img.hasIndex THEN img.dataIndex ELSE index,
   index |-> index]

\* Array.prototype.sort with the comparator a.order - b.order (line 569):
\* a stable sort, here by insertion; x goes before the first entry the
\* comparator puts after it.
RECURSIVE InsertByOrder(_, _)
InsertByOrder(s, x) ==
  IF s = <<>> THEN <<x>>
  ELSE IF x.order - Head(s).order < 0 THEN <<x>> \o s
  ELSE <<Head(s)>> \o InsertByOrder(Tail(s), x)

RECURSIVE SortByOrder(_)
SortByOrder(s) ==
  IF s = <<>> THEN <<>>
  ELSE InsertByOrder(SortByOrder(SubSeq(s, 1, Len(s) - 1)), s[Len(s)])

\* extractAllImages with line 569 left out: the entries in DOM order.
extractAllImages_Unsorted(images) ==
  [k \in 1..Len(images) |-> ImageData(images[k], k - 1)]

\* extractAllImages (lines 551-572) on the img elements in DOM order.
extractAllImages(images) ==
  SortByOrder([k \in 1..Len(images) |-> ImageData(images[k], k - 1)])

\* The img elements of a page on which k images were generated, none of them
\* inside an element with a data-index attribute.
GeneratedOnPage(k) ==
  [j \in 1..k |-> [url |-> j, hasIndex |-> FALSE, dataIndex |-> 0]]

\* ------------------------------------------------------------- popup
\* handleMessage of the popup (popup.js 370-409) on its run flags
\* state.isRunning and state.isPaused; the other cases only log.
NoPopup == [isRunning |-> FALSE, isPaused |-> FALSE]

handleMessage(s, msg) ==
  CASE msg.type = "Complete" -> [isRunning |-> FALSE, isPaused |-> FALSE]
    [] msg.type = "Error" ->
         IF msg.fatal THEN [isRunning |-> FALSE, isPaused |-> FALSE] ELSE s
    [] OTHER -> s

\* ------------------------------------------------------------- context
\* The part of the state one synchronous segment of invocation l reads and
\* writes: the shared automationState fields, its own locals and its events.
Ctx(l) ==
  [run |-> isRunning, paused |-> isPaused, cur |-> currentIndex,
   set |-> settingsRetries, st |-> status,
   dom |-> pageImages, gen |-> generatedImages,
   att |-> attached, lost |-> unheard, pop |-> popup,
   L |-> loops[l], ev |-> emitted[l]]

\* Send with an absent popup reported to the popup-facing log as a fatal
\* error of the run.
Send_SurfacesAbsence(c, msg) ==
  IF c.att THEN [c EXCEPT !.ev = Append(@, msg),
                          !.pop = handleMessage(@, msg)]
  ELSE [c EXCEPT !.ev = Append(@, ErrorEv(0, 0, TRUE)), !.lost = @ + 1]

\* chrome.runtime.sendMessage(msg) as sendProgressUpdate, sendError and
\* runAutomation call it (lines 677, 690, 700, 710): no callback, the
\* returned promise is dropped; without a receiver it is rejected unobserved.
Send(c, msg) ==
  [c EXCEPT !.ev = Append(@, msg),
            !.lost = IF c.att THEN @ ELSE @ + 1,
            !.pop = IF c.att THEN handleMessage(@, msg) ELSE @]

\* ExitLoop with line 674 (isRunning = false) forgotten.
ExitLoop_KeepsRunning(c) ==
  Send([c EXCEPT !.st = IF c.run THEN "Completed" ELSE c.st,
                 !.gen = extractAllImages(GeneratedOnPage(c.dom)),
                 !.L.pc = "done"],
       CompleteEv)

\* ExitLoop with the GENERATION_COMPLETE message also sent when the loop
\* was left by break (line 639), so a stopped run reports twice.
ExitLoop_ReportsStopToo(c) ==
  LET d == Send([c EXCEPT !.run = FALSE,
                          !.st = IF c.run THEN "Completed" ELSE c.st,
                          !.gen = extractAllImages(GeneratedOnPage(c.dom)),
                          !.L.pc = "done"],
                CompleteEv)
  IN IF c.run THEN d ELSE Send(d, CompleteEv)

\* runAutomation, after the for loop: lines 673-683.
ExitLoop(c) ==
  Send([c EXCEPT !.run = FALSE,
                 !.st = IF c.run THEN "Completed" ELSE c.st,
                 !.gen = extractAllImages(GeneratedOnPage(c.dom)),
                 !.L.pc = "done"],
       CompleteEv)

\* ItemEnd with lines 660-665 in the other order: the progress update first.
ItemEnd_ProgressFirst(c, success) ==
  LET i  == c.L.i
      c0 == Send(c, ProgressEv(i + 1, i))
      c1 == IF success THEN c0 ELSE Send(c0, ErrorEv(i + 1, i, FALSE))
      c2 == [c1 EXCEPT !.L.lastItem = i,
                      !.L.lastTried = c.L.tried,
                      !.L.lastFails = c.L.fails,
                      !.L.lastRetries = c.L.retries,
                      !.L.lastSuccess = success]
  IN IF i < c.L.n - 1
       THEN [c2 EXCEPT !.L.pc = "delay"]
       ELSE ExitLoop([c2 EXCEPT !.L.i = i + 1])

\* ItemEnd with sendError called whatever processPrompt returned.
ItemEnd_ErrorAlways(c, success) ==
  LET i  == c.L.i
      c0 == Send(c, ErrorEv(i + 1, i, FALSE))
      c1 == Send(c0, ProgressEv(i + 1, i))
      c2 == [c1 EXCEPT !.L.lastItem = i,
                      !.L.lastTried = c.L.tried,
                      !.L.lastFails = c.L.fails,
                      !.L.lastRetries = c.L.retries,
                      !.L.lastSuccess = success]
  IN IF i < c.L.n - 1
       THEN [c2 EXCEPT !.L.pc = "delay"]
       ELSE ExitLoop([c2 EXCEPT !.L.i = i + 1])

\* runAutomation lines 660-671 with processPrompt's return value.
ItemEnd(c, success) ==
  LET i  == c.L.i
      c0 == IF success THEN c ELSE Send(c, ErrorEv(i + 1, i, FALSE))
      c1 == Send(c0, ProgressEv(i + 1, i))
      c2 == [c1 EXCEPT !.L.lastItem = i,
                      !.L.lastTried = c.L.tried,
                      !.L.lastFails = c.L.fails,
                      !.L.lastRetries = c.L.retries,
                      !.L.lastSuccess = success]
  IN IF i < c.L.n - 1
       THEN [c2 EXCEPT !.L.pc = "delay"]
       ELSE ExitLoop([c2 EXCEPT !.L.i = i + 1])

\* The loop condition off by one: attempt < retries.
MayAttempt_OffByOne(attempt, retries) == attempt < retries

\* processPrompt's loop condition: attempt <= retries.
MayAttempt(attempt, retries) == attempt <= retries

\* processPrompt's backoff condition: attempt < retries.
MayRetry(attempt, retries) == attempt < retries

\* BeginItem with the progress update of line 655 left out.
BeginItem_NoProgress(c) ==
  LET i  == c.L.i
      c1 == [c EXCEPT !.cur = i,
                      !.L.retries = c.set,
                      !.L.attempt = 1,
                      !.L.tried = 0,
                      !.L.fails = 0]
  IN IF MayAttempt(1, c.set)
       THEN [c1 EXCEPT !.L.pc = "attempt", !.L.tried = 1]
       ELSE [c1 EXCEPT !.L.pc = "resolved"]

\* runAutomation lines 650-658 and the entry of processPrompt (582-589).
BeginItem(c) ==
  LET i  == c.L.i
      c0 == Send(c, ProgressEv(i, i))
      c1 == [c0 EXCEPT !.cur = i,
                      !.L.retries = c.set,
                      !.L.attempt = 1,
                      !.L.tried = 0,
                      !.L.fails = 0]
  IN IF MayAttempt(1, c.set)
       THEN [c1 EXCEPT !.L.pc = "attempt", !.L.tried = 1]
       ELSE [c1 EXCEPT !.L.pc = "resolved"]

\* The checkpoint without the tests of isRunning (lines 638 and 648).
Checkpoint_IgnoresStop(c) ==
  IF c.paused THEN [c EXCEPT !.L.pc = "pausewait"]
  ELSE BeginItem(c)

\* The checkpoint at the top of the loop body: lines 638-648.
Checkpoint(c) ==
  IF ~c.run THEN ExitLoop(c)
  ELSE IF c.paused THEN [c EXCEPT !.L.pc = "pausewait"]
  ELSE BeginItem(c)

\* The for statement's condition, then the body.
ForLoop(c) ==
  IF c.L.i < c.L.n THEN Checkpoint(c) ELSE ExitLoop(c)

\* The pause wait without its tests: the loop sleeps again whatever the flags.
PauseWake_SleepsOn(c) == c

\* After await sleep(500) in while (isPaused): lines 645-648.
PauseWake(c) ==
  IF ~c.run THEN ExitLoop(c)
  ELSE IF c.paused THEN c
  ELSE BeginItem(c)

\* The end of one attempt: lines 610-624. outcome is "ok" (the wait returned
\* true: a new image is on the page), "timeout" (it returned false) or
\* "thrown" (a step threw).
AttemptEnd(c, outcome) ==
  IF outcome = "ok" THEN ItemEnd([c EXCEPT !.dom = @ + 1], TRUE)
  ELSE LET c1 == [c EXCEPT !.L.fails = @ + 1]
       IN IF MayRetry(c.L.attempt, c.L.retries)
            THEN [c1 EXCEPT !.L.pc = "backoff"]
            ELSE IF MayAttempt(c.L.attempt + 1, c.L.retries)
              THEN [c1 EXCEPT !.L.attempt = @ + 1, !.L.tried = @ + 1,
                              !.L.pc = "attempt"]
              ELSE ItemEnd([c1 EXCEPT !.L.attempt = @ + 1], FALSE)

\* After await sleep(2000): attempt++ and the loop condition.
BackoffEnd(c) ==
  IF MayAttempt(c.L.attempt + 1, c.L.retries)
    THEN [c EXCEPT !.L.attempt = @ + 1, !.L.tried = @ + 1, !.L.pc = "attempt"]
    ELSE ItemEnd([c EXCEPT !.L.attempt = @ + 1], FALSE)

\* DelayEnd with the i++ of the for statement left out.
DelayEnd_NoAdvance(c) == ForLoop(c)

\* After await sleep(settings.delay): i++ and the for condition.
DelayEnd(c) == ForLoop([c EXCEPT !.L.i = @ + 1])

\* Write a segment's result back.
Commit(l, c) ==
  /\ isRunning' = c.run
  /\ isPaused' = c.paused
  /\ currentIndex' = c.cur
  /\ status' = c.st
  /\ pageImages' = c.dom
  /\ generatedImages' = c.gen
  /\ unheard' = c.lost
  /\ popup' = c.pop
  /\ loops' = [loops EXCEPT ![l] = c.L]
  /\ emitted' = [emitted EXCEPT ![l] = c.ev]

\* ------------------------------------------------------------- handlers
\* START_GENERATION: lines 787-799; runAutomation() runs synchronously up to
\* its first await.
StartCtx(n, r) ==
  [run |-> TRUE, paused |-> FALSE, cur |-> 0, set |-> r,
   st |-> "Running",
   dom |-> pageImages, gen |-> <<>>,
   att |-> attached, lost |-> unheard, pop |-> popup,
   L |-> [NoLoop EXCEPT !.pc = "init", !.n = n],
   ev |-> <<>>]

\* pop: the popup's flags at the time the message is handled.
StartReceived(n, r, pop) ==
  /\ Quiescent
  /\ nStarted < MaxStarts
  /\ LET l == nStarted + 1
         d == ForLoop([StartCtx(n, r) EXCEPT !.pop = pop])
     IN /\ isRunning' = d.run
        /\ popup' = d.pop
        /\ isPaused' = d.paused
        /\ currentIndex' = d.cur
        /\ status' = d.st
        /\ pageImages' = d.dom
        /\ generatedImages' = d.gen
        /\ unheard' = d.lost
        /\ emitted' = [emitted EXCEPT ![l] = d.ev]
        /\ loops' = [k \in LoopIds |->
                       IF k = l THEN d.L
                       ELSE IF Alive(loops[k]) /\ loops[k].restartAt = -1
                         THEN [loops[k] EXCEPT !.restartAt = Begun(k)]
                         ELSE loops[k]]
  /\ nStarted' = nStarted + 1
  /\ promptsLen' = n
  /\ settingsRetries' = r
  /\ UNCHANGED <<attached, dlVars, pageVars, stepVars>>

StartRun(n, r) == StartReceived(n, r, popup)

\* PAUSE_GENERATION: lines 801-804.
PauseReceived ==
  /\ Quiescent
  /\ isPaused' = TRUE
  /\ status' = IF isRunning THEN "Paused" ELSE status
  /\ loops' = [l \in LoopIds |->
                 IF InFlight(loops[l]) /\ loops[l].heldAt = -1
                   THEN [loops[l] EXCEPT !.heldAt = loops[l].i]
                   ELSE loops[l]]
  /\ UNCHANGED <<isRunning, currentIndex, promptsLen, settingsRetries,
                 emitted, nStarted, pageImages, generatedImages, attached,
                 unheard, dlVars, pageVars, stepVars>>

PauseRun == PauseReceived /\ UNCHANGED popup

\* RESUME_GENERATION: lines 806-809.
ResumeReceived ==
  /\ Quiescent
  /\ isPaused' = FALSE
  /\ status' = IF isRunning THEN "Running" ELSE status
  /\ loops' = [l \in LoopIds |-> [loops[l] EXCEPT !.heldAt = -1]]
  /\ UNCHANGED <<isRunning, currentIndex, promptsLen, settingsRetries,
                 emitted, nStarted, pageImages, generatedImages, attached,
                 unheard, dlVars, pageVars, stepVars>>

ResumeRun == ResumeReceived /\ UNCHANGED popup

\* STOP_GENERATION: lines 811-815.
StopReceived ==
  /\ Quiescent
  /\ isRunning' = FALSE
  /\ isPaused' = FALSE
  /\ status' = IF isRunning THEN "Stopped" ELSE status
  /\ loops' = [l \in LoopIds |->
                 IF Alive(loops[l])
                   THEN [loops[l] EXCEPT
                           !.heldAt = -1,
                           !.stopSeen = TRUE,
                           !.stopInPauseAt =
                              IF loops[l].pc = "pausewait" /\ @ = -1
                                THEN Begun(l) ELSE @,
                           !.stopInFlightAt =
                              IF InFlight(loops[l]) /\ @ = -1
                                THEN loops[l].i ELSE @,
                           !.stopAt = IF @ = -1 THEN Begun(l) ELSE @]
                   ELSE [loops[l] EXCEPT !.heldAt = -1]]
  /\ UNCHANGED <<currentIndex, promptsLen, settingsRetries, emitted, nStarted,
                 pageImages, generatedImages, attached, unheard, dlVars,
                 pageVars, stepVars>>

StopRun == StopReceived /\ UNCHANGED popup

\* ------------------------------------------------------------- continuations
AttemptDone(l, outcome) ==
  /\ Quiescent
  /\ loops[l].pc = "attempt"
  /\ Commit(l, AttemptEnd(Ctx(l), outcome))
  /\ UNCHANGED <<promptsLen, settingsRetries, nStarted, attached, dlVars,
                 pageVars, stepVars>>

BackoffDone(l) ==
  /\ Quiescent
  /\ loops[l].pc = "backoff"
  /\ Commit(l, BackoffEnd(Ctx(l)))
  /\ UNCHANGED <<promptsLen, settingsRetries, nStarted, attached, dlVars,
                 pageVars, stepVars>>

DelayDone(l) ==
  /\ Quiescent
  /\ loops[l].pc = "delay"
  /\ Commit(l, DelayEnd(Ctx(l)))
  /\ UNCHANGED <<promptsLen, settingsRetries, nStarted, attached, dlVars,
                 pageVars, stepVars>>

\* The microtask that resumes runAutomation after await processPrompt(...)
\* returned false without any attempt: lines 658-671.
ItemReturned(l) ==
  /\ loops[l].pc = "resolved"
  /\ Commit(l, ItemEnd(Ctx(l), FALSE))
  /\ UNCHANGED <<promptsLen, settingsRetries, nStarted, attached, dlVars,
                 pageVars, stepVars>>

PauseWaitDone(l) ==
  /\ Quiescent
  /\ loops[l].pc = "pausewait"
  /\ Commit(l, PauseWake(Ctx(l)))
  /\ UNCHANGED <<promptsLen, settingsRetries, nStarted, attached, dlVars,
                 pageVars, stepVars>>

\* ------------------------------------------------------------- downloads
MaxTasks == 2        \* images per DOWNLOAD_IMAGES: 1..MaxTasks

\* Where a request's images come from: two different image lists.
Sources == {"p", "q"}

\* message.data.images: n images of list s, in extraction order.
Images(s, n) == [k \in 1..n |-> [src |-> s, pos |-> k]]

\* message.data.prefix || 'story' (line 134).
PrefixOr(p) == IF p = "" THEN "story" ELSE p

\* message.data.delay || 500 (line 135).
DelayOr(d) == IF d = 0 THEN 500 ELSE d

\* String(k): the decimal digits of k >= 0.
RECURSIVE Digits(_)
Digits(k) == IF k < 10 THEN <<k>> ELSE Append(Digits(k \div 10), k % 10)

\* s.padStart(width, '0') for a digit string.
RECURSIVE PadStart(_, _)
PadStart(s, width) == IF Len(s) >= width THEN s ELSE PadStart(<<0>> \o s, width)

PadWidth == 3

\* `${prefix}_${paddedIndex}.png` for the loop index i (lines 63-64).
Filename(pre, i) ==
  [prefix |-> pre, sep |-> "_", num |-> PadStart(Digits(i + 1), PadWidth),
   ext |-> ".png"]

NoDownload == [pc |-> "idle", i |-> 0, item |-> [src |-> "", pos |-> 0],
               file |-> Filename("", 0)]

DownloadProgressEv(cur, tot, file) ==
  [type |-> "DownloadProgress", current |-> cur, total |-> tot, file |-> file]

DownloadCompleteEv(tot) ==
  [type |-> "DownloadComplete", current |-> 0, total |-> tot,
   file |-> Filename("", 0)]

\* The part of the state processDownloadQueue reads and writes.
DlCtx ==
  [active |-> isDownloading, q |-> queue, done |-> completed, tot |-> total,
   pre |-> prefix, D |-> dl, ev |-> dlEvents, att |-> attached]

\* broadcastMessage (lines 110-124): the rejection of sendMessage without a
\* receiver is caught and dropped.
broadcastMessage(c, msg) == [c EXCEPT !.ev = Append(@, msg)]

\* After the for loop: lines 93-102.
DlExit(c) ==
  [c EXCEPT !.active = FALSE,
            !.q = <<>>,
            !.ev = broadcastMessage(c, DownloadCompleteEv(c.done)).ev,
            !.D = NoDownload]

\* The for statement's condition and lines 60-67: the download of queue[i]
\* begins (the queue is 1-based here).
DlLoop(c) ==
  IF c.D.i < Len(c.q)
    THEN [c EXCEPT !.D.pc = "downloading",
                   !.D.item = c.q[c.D.i + 1],
                   !.D.file = Filename(c.pre, c.D.i)]
    ELSE DlExit(c)

\* processDownloadQueue up to its first await: lines 51-67.
DlStart(c) ==
  IF c.active THEN c
  ELSE DlLoop([c EXCEPT !.active = TRUE, !.done = 0, !.tot = Len(c.q),
                        !.ev = <<>>, !.D = [NoDownload EXCEPT !.i = 0]])

\* DlItemEnd with the position in the queue, not the count of successes, as
\* the current of the progress event.
DlItemEnd_ByPosition(c, outcome) ==
  LET c1 == IF outcome = "ok"
              THEN broadcastMessage([c EXCEPT !.done = @ + 1],
                     DownloadProgressEv(c.D.i + 1, c.tot, c.D.file))
              ELSE c
  IN IF c.D.i < Len(c.q) - 1
       THEN [c1 EXCEPT !.D.pc = "sleeping"]
       ELSE DlLoop([c1 EXCEPT !.D.i = @ + 1])

\* After await downloadImage: lines 69-90. outcome is "ok" (resolved true),
\* "failed" (resolved false) or "thrown" (rejected, caught at line 83).
DlItemEnd(c, outcome) ==
  LET c1 == IF outcome = "ok"
              THEN broadcastMessage([c EXCEPT !.done = @ + 1],
                     DownloadProgressEv(c.done + 1, c.tot, c.D.file))
              ELSE c
  IN IF c.D.i < Len(c.q) - 1
       THEN [c1 EXCEPT !.D.pc = "sleeping"]
       ELSE DlLoop([c1 EXCEPT !.D.i = @ + 1])

\* After await sleep(downloadState.delay): i++ and the for condition.
DlSleepEnd(c) == DlLoop([c EXCEPT !.D.i = @ + 1])

DlCommit(c) ==
  /\ isDownloading' = c.active
  /\ queue' = c.q
  /\ completed' = c.done
  /\ total' = c.tot
  /\ dl' = c.D
  /\ dlEvents' = c.ev

\* DOWNLOAD_IMAGES with a non-empty image list: lines 131-137.
DownloadImages(s, n, p, d) ==
  LET imgs == Images(s, n)
      c    == [DlCtx EXCEPT !.q = imgs, !.pre = PrefixOr(p)]
  IN /\ DlCommit(DlStart(c))
     /\ prefix' = PrefixOr(p)
     /\ delay' = DelayOr(d)
     /\ dlResponse' = [success |-> TRUE, total |-> n,
                       whileActive |-> isDownloading]
     /\ dlRun' = IF isDownloading THEN dlRun
                 ELSE [tasks |-> imgs, prefix |-> PrefixOr(p),
                       delay |-> DelayOr(d),
                       afterDrain |-> dlRun.tasks # <<>>]
     /\ saved' = IF isDownloading THEN saved ELSE <<>>
     /\ UNCHANGED <<runVars, pageVars, stepVars>>

DownloadDone(outcome) ==
  /\ dl.pc = "downloading"
  /\ DlCommit(DlItemEnd(DlCtx, outcome))
  /\ saved' = Append(saved, [task |-> dl.item, file |-> dl.file,
                             ok |-> outcome = "ok"])
  /\ UNCHANGED <<prefix, delay, dlResponse, dlRun, runVars, pageVars, stepVars>>

DownloadSleepDone ==
  /\ dl.pc = "sleeping"
  /\ DlCommit(DlSleepEnd(DlCtx))
  /\ UNCHANGED <<prefix, delay, dlResponse, dlRun, saved, runVars, pageVars, stepVars>>

\* GET_DOWNLOAD_STATUS: the response of lines 151-157.
DownloadStatus ==
  [isDownloading |-> isDownloading, completed |-> completed, total |-> total]

\* ------------------------------------------------------------- waits
MaxElems == 2        \* matching elements on the page, minCount: up to MaxElems

\* kind: which primitive was called
\*   "element"    waitForElement            (lines 74-108)
\*   "elements"   waitForElements           (lines 117-153)
\*   "any"        waitForAnyElement         (lines 192-236)
\*   "generation" waitForGenerationComplete (lines 500-545)
WaitKinds == {"element", "elements", "any", "generation"}

\* called: the primitive was called; resolved: its promise is settled, with
\* value "found" (an element, a NodeList, true) or "empty" (null, false);
\* via: the code that settled it ("call", "observer", "timer").
\* observer / timer: the MutationObserver is connected / the interval is set.
\* subscribed / timerStarted: observe() / setInterval() was called at all.
\* trueAtCall, everTrue: the awaited condition held at call time / at some
\* time between the call and the resolution.
\* heldInTime: the condition came to hold before the deadline and has held
\* ever since (up to the resolution).
\* logs: the terminal sendLog calls of waitForGenerationComplete.
NoWait ==
  [kind |-> "element", minCount |-> 1, initialCount |-> 0,
   called |-> FALSE, resolved |-> FALSE, value |-> "none", via |-> "none",
   observer |-> FALSE, timer |-> FALSE,
   subscribed |-> FALSE, timerStarted |-> FALSE,
   trueAtCall |-> FALSE, everTrue |-> FALSE, heldInTime |-> FALSE,
   logs |-> <<>>]

\* The awaited condition on a page with p matching elements.
Cond(w, p) ==
  CASE w.kind = "elements"   -> p >= w.minCount
    [] w.kind = "generation" -> p > w.initialCount
    [] OTHER                 -> p >= 1

\* resolve(v): settles the promise once; later calls have no effect.
Resolve(w, v, via) ==
  IF w.resolved THEN w
  ELSE [w EXCEPT !.resolved = TRUE, !.value = v, !.via = via]

\* The check before subscribing, left out.
InitialCheck_Skipped(w, p) == FALSE

\* The check before subscribing (lines 79-83, 130, 198-202);
\* waitForGenerationComplete has none.
InitialCheck(w, p) == w.kind # "generation" /\ Cond(w, p)

\* The promise executor: the synchronous part of the call.
Executor(w, p) ==
  IF InitialCheck(w, p) THEN Resolve(w, "found", "call")
  ELSE [w EXCEPT !.observer = TRUE, !.timer = TRUE,
                 !.subscribed = TRUE, !.timerStarted = TRUE]

\* The MutationObserver callback (lines 86-92, 132-136, 205-211, 507-517).
ObserverCallback(w, p) ==
  IF ~Cond(w, p) THEN w
  ELSE IF w.kind = "generation"
    THEN Resolve([w EXCEPT !.observer = FALSE,
                           !.logs = Append(@, "complete")], "found", "observer")
    ELSE Resolve([w EXCEPT !.observer = FALSE], "found", "observer")

\* The interval callback with clearInterval left out of the timeout branch.
IntervalCallback_KeepsTimer(w, p, isLate) ==
  IF isLate THEN Resolve([w EXCEPT !.observer = FALSE], "empty", "timer")
  ELSE w

\* The setInterval callback (lines 100-106, 144-151, 220-234, 525-543).
IntervalCallback(w, p, isLate) ==
  LET stopped == [w EXCEPT !.observer = FALSE, !.timer = FALSE]
  IN CASE w.kind = "element" ->
            IF isLate THEN Resolve(stopped, "empty", "timer") ELSE w
       [] w.kind = "elements" ->
            IF isLate
              THEN Resolve(stopped, IF p > 0 THEN "found" ELSE "empty", "timer")
              ELSE w
       [] w.kind = "any" ->
            IF p >= 1 THEN Resolve(stopped, "found", "timer")
            ELSE IF isLate THEN Resolve(stopped, "empty", "timer")
            ELSE w
       [] OTHER ->
            LET w1 == IF isLate
                        THEN Resolve([stopped EXCEPT
                                        !.logs = Append(@, "timeout")],
                                     "empty", "timer")
                        ELSE w
            IN IF p > w.initialCount
                 THEN Resolve([w1 EXCEPT !.observer = FALSE, !.timer = FALSE,
                                         !.logs = Append(@, "complete")],
                              "found", "timer")
                 ELSE w1

\* Nothing of an earlier wait is left: the next wait can be told apart.
Quiet(w) == (w.called => w.resolved) /\ ~w.observer /\ ~w.timer

\* A step calls a wait primitive; startTime = Date.now().
WaitCall(kind, m) ==
  /\ Quiet(wait)
  /\ LET w == [NoWait EXCEPT !.kind = kind, !.minCount = m,
                             !.initialCount =
                                IF kind = "generation" THEN present ELSE 0,
                             !.called = TRUE]
         c == Cond(w, present)
     IN wait' = Executor([w EXCEPT !.trueAtCall = c, !.everTrue = c,
                                   !.heldInTime = c], present)
  /\ late' = FALSE
  /\ UNCHANGED <<present, domImages, imagesResponse, runVars, dlVars, stepVars>>

\* The page changes; the observer, if connected, may be notified of it.
PageChanges(p, notified) ==
  /\ wait.called
  /\ p # present
  /\ present' = p
  /\ LET w == IF wait.resolved THEN wait
              ELSE IF Cond(wait, p)
                THEN [wait EXCEPT !.everTrue = TRUE,
                                  !.heldInTime = @ \/ ~late]
                ELSE [wait EXCEPT !.heldInTime = FALSE]
     IN wait' = IF notified /\ w.observer THEN ObserverCallback(w, p) ELSE w
  /\ UNCHANGED <<late, domImages, imagesResponse, runVars, dlVars, stepVars>>

\* Time passes the deadline of the wait.
DeadlinePasses ==
  /\ wait.called
  /\ ~late
  /\ wait.timer
  /\ late' = TRUE
  /\ UNCHANGED <<wait, present, domImages, imagesResponse, runVars, dlVars, stepVars>>

\* The interval fires.
TimerTick ==
  /\ wait.timer
  /\ wait' = IntervalCallback(wait, present, late)
  /\ UNCHANGED <<present, late, domImages, imagesResponse, runVars, dlVars, stepVars>>

\* GET_ALL_IMAGES: lines 816-819.
GetAllImages ==
  /\ imagesResponse' = [done |-> TRUE, images |-> extractAllImages(domImages)]
  /\ UNCHANGED <<wait, present, late, domImages, runVars, dlVars, stepVars>>

\* ------------------------------------------------------------- popup
\* The popup is closed: its document and its listener are gone.
PopupCloses ==
  /\ Quiescent
  /\ attached
  /\ attached' = FALSE
  /\ UNCHANGED <<isRunning, isPaused, currentIndex, promptsLen,
                 settingsRetries, loops, emitted, nStarted, status,
                 pageImages, generatedImages, unheard, popup, dlVars,
                 pageVars, stepVars>>

\* The popup is opened again: popup.js line 93 registers handleMessage.
PopupOpens ==
  /\ Quiescent
  /\ ~attached
  /\ attached' = TRUE
  /\ popup' = NoPopup
  /\ UNCHANGED <<isRunning, isPaused, currentIndex, promptsLen,
                 settingsRetries, loops, emitted, nStarted, status,
                 pageImages, generatedImages, unheard, dlVars, pageVars,
                 stepVars>>

\* The content script is left as it is: the message did not reach it
\* (sendToContentScript returned null, popup.js 414-427) or none was sent.
ExecutorUntouched ==
  UNCHANGED <<isRunning, isPaused, currentIndex, promptsLen, settingsRetries,
              loops, emitted, nStarted, status, pageImages, generatedImages,
              attached, unheard, dlVars, pageVars, stepVars>>

\* startGeneration (popup.js 210-249) with a character image and n prompts;
\* the Start button is shown only while state.isRunning is false (323-331).
\* delivered: chrome.tabs.sendMessage reached the content script.
startGeneration(n, r, delivered) ==
  /\ Quiescent
  /\ attached
  /\ ~popup.isRunning
  /\ IF delivered
       THEN StartReceived(n, r, [isRunning |-> TRUE, isPaused |-> FALSE])
       ELSE /\ popup' = [isRunning |-> TRUE, isPaused |-> FALSE]
            /\ ExecutorUntouched

\* pauseGeneration (popup.js 253-260); the Pause button is shown while
\* running and not paused.
pauseGeneration(delivered) ==
  /\ Quiescent
  /\ attached
  /\ popup.isRunning /\ ~popup.isPaused
  /\ popup' = [popup EXCEPT !.isPaused = TRUE]
  /\ IF delivered THEN PauseReceived ELSE ExecutorUntouched

\* resumeGeneration (popup.js 265-273); the Resume button is shown while
\* running and paused.
resumeGeneration(delivered) ==
  /\ Quiescent
  /\ attached
  /\ popup.isRunning /\ popup.isPaused
  /\ popup' = [popup EXCEPT !.isPaused = FALSE]
  /\ IF delivered THEN ResumeReceived ELSE ExecutorUntouched

\* stopGeneration (popup.js 278-288); the Stop button is shown while running.
stopGeneration(delivered) ==
  /\ Quiescent
  /\ attached
  /\ popup.isRunning
  /\ popup' = NoPopup
  /\ IF delivered THEN StopReceived ELSE ExecutorUntouched

\* ------------------------------------------------------------- one item
\* processPrompt (lines 581-628) and uploadCharacterImage (300-404) step by
\* step. pc is the await the call is suspended at:
\*   "clearPrompt"          await clearPrompt(); await sleep(300)
\*   "uploadCharacterImage" inside uploadCharacterImage, at the await named
\*                          by the field at:
\*        "locate"   waitForAnyElement(addIngredientButton) (line 307)
\*        "modal"    sleep(800), waitForAnyElement(fileInput) (356-359)
\*        "last"     sleep(500) (line 364)
\*        "giveUp"   closeModal() before the throw (line 369)
\*        "deliver"  fetch(imageData), response.blob() (374-375)
\*        "settle"   sleep(2000) (line 398)
\*        "close"    closeModal() (line 401)
\*   "addLastImageToPrompt" await addLastImageToPrompt(); await sleep(500)
\*   "writePrompt"          await writePrompt(); await sleep(300)
\*   "clickCreate"          await clickCreate()
\*   "waitForGenerationComplete"
\*   "backoff"              await sleep(2000) between two attempts
\*   "returned"             processPrompt returned result
\* phases: the phases the attempt under way has entered, in order
\* chained: what addLastImageToPrompt returned in that attempt
\* opened: the add button was clicked in the upload under way (line 355)
\* closeModalCalls: calls of closeModal by the upload under way
\* uploadExit: how the last upload was left
\* ownDue: the attempt under way clicked Create and its image is not on the
\*         page yet
\* ownArrived: the image of the attempt under way came onto the page
\* lateDue: generations of earlier attempts whose image may still come
\* newSince: images that came onto the page since waitForGenerationComplete
\*           read initialCount (line 502)
\* last: the last attempt that ended
MaxLate == 1         \* generations of earlier attempts still pending

NoProc ==
  [pc |-> "idle", at |-> "none", i |-> 0, isFirst |-> FALSE,
   attempt |-> 0, retries |-> 0, result |-> "none",
   phases |-> <<>>, chained |-> "none",
   opened |-> FALSE, closeModalCalls |-> 0, uploadExit |-> "none",
   ownDue |-> FALSE, ownArrived |-> FALSE, lateDue |-> 0, newSince |-> 0,
   last |-> [outcome |-> "none", phases |-> <<>>, chained |-> "none",
             own |-> FALSE]]

EnterPhase(p, phase) == [p EXCEPT !.pc = phase, !.phases = Append(@, phase)]

\* The top of the try block: lines 585-589.
BeginAttempt(p) ==
  [p EXCEPT !.pc = "clearPrompt", !.at = "none",
            !.phases = <<"clearPrompt">>, !.chained = "none"]

Return(p, v) == [p EXCEPT !.pc = "returned", !.at = "none", !.result = v]

\* attempt++ and the loop condition of line 584, then line 626.
NextAttempt(p) ==
  LET q == [p EXCEPT !.attempt = @ + 1]
  IN IF MayAttempt(q.attempt, q.retries) THEN BeginAttempt(q)
     ELSE Return(q, "false")

\* The end of the try block or the catch block: lines 612-623.
EndAttempt(p, outcome) ==
  LET q == [p EXCEPT !.at = "none",
                     !.last = [outcome |-> outcome, phases |-> p.phases,
                               chained |-> p.chained, own |-> p.ownArrived],
                     !.lateDue = IF p.ownDue /\ @ < MaxLate THEN @ + 1 ELSE @,
                     !.ownDue = FALSE,
                     !.ownArrived = FALSE,
                     !.newSince = 0]
  IN IF outcome = "ok" THEN Return(q, "true")
     ELSE IF MayRetry(p.attempt, p.retries) THEN [q EXCEPT !.pc = "backoff"]
     ELSE NextAttempt(q)

\* runAutomation line 652.
IsFirst(i) == i = 0

\* Lines 596-603 with isFirst ignored: the chaining phase on every item.
AfterUpload_AlwaysChains(p) == EnterPhase(p, "addLastImageToPrompt")

\* Lines 594-603: after the upload, chain unless isFirst, then write.
AfterUpload(p) ==
  IF ~p.isFirst THEN EnterPhase(p, "addLastImageToPrompt")
  ELSE EnterPhase(p, "writePrompt")

\* processPrompt(prompts[i], i === 0, ...) with settings.retries = r.
ProcessPrompt(i, r) ==
  /\ proc.pc \in {"idle", "returned"}
  /\ LET p == [NoProc EXCEPT !.i = i, !.isFirst = IsFirst(i),
                             !.attempt = 1, !.retries = r,
                             !.lateDue = proc.lateDue]
     IN proc' = IF MayAttempt(1, r) THEN BeginAttempt(p)
                ELSE Return(p, "false")
  /\ UNCHANGED <<runVars, dlVars, pageVars>>

\* clearPrompt (286-294) never throws: without a textarea it does nothing.
ClearPromptDone ==
  /\ proc.pc = "clearPrompt"
  /\ proc' = [EnterPhase(proc, "uploadCharacterImage") EXCEPT
                !.at = "locate", !.opened = FALSE,
                !.closeModalCalls = 0, !.uploadExit = "none"]
  /\ UNCHANGED <<runVars, dlVars, pageVars>>

\* Lines 307-366: addButton is what methods 1 and 2 found, fileInput what
\* method 3 and the hidden-input scan found.
UploadLocated(addButton, fileInput) ==
  /\ proc.pc = "uploadCharacterImage" /\ proc.at = "locate"
  /\ proc' = IF addButton /\ ~fileInput
               THEN [proc EXCEPT !.opened = TRUE, !.at = "modal"]
             ELSE IF fileInput THEN [proc EXCEPT !.at = "deliver"]
             ELSE [proc EXCEPT !.at = "last"]
  /\ UNCHANGED <<runVars, dlVars, pageVars>>

\* Lines 359-366: the wait for the file input of the modal.
UploadModalWaited(found) ==
  /\ proc.pc = "uploadCharacterImage" /\ proc.at = "modal"
  /\ proc' = [proc EXCEPT !.at = IF found THEN "deliver" ELSE "last"]
  /\ UNCHANGED <<runVars, dlVars, pageVars>>

\* Lines 365-374: the final look for a file input.
UploadLastLook(found) ==
  /\ proc.pc = "uploadCharacterImage" /\ proc.at = "last"
  /\ proc' = IF found THEN [proc EXCEPT !.at = "deliver"]
             ELSE [proc EXCEPT !.at = "giveUp", !.closeModalCalls = @ + 1]
  /\ UNCHANGED <<runVars, dlVars, pageVars>>

\* Line 370: closeModal returned, the error is thrown.
UploadGaveUp ==
  /\ proc.pc = "uploadCharacterImage" /\ proc.at = "giveUp"
  /\ proc' = EndAttempt([proc EXCEPT !.uploadExit = "noInput"], "thrown")
  /\ UNCHANGED <<runVars, dlVars, pageVars>>

\* Lines 374-398: fetch of the data URL, blob, File, DataTransfer, events.
\* Any of them may throw; nothing catches it inside uploadCharacterImage.
UploadDelivered(outcome) ==
  /\ proc.pc = "uploadCharacterImage" /\ proc.at = "deliver"
  /\ proc' = IF outcome = "ok" THEN [proc EXCEPT !.at = "settle"]
             ELSE EndAttempt([proc EXCEPT !.uploadExit = "error"], "thrown")
  /\ UNCHANGED <<runVars, dlVars, pageVars>>

\* Lines 398-401: the upload settled, closeModal is called.
UploadSettled ==
  /\ proc.pc = "uploadCharacterImage" /\ proc.at = "settle"
  /\ proc' = [proc EXCEPT !.at = "close", !.closeModalCalls = @ + 1]
  /\ UNCHANGED <<runVars, dlVars, pageVars>>

\* Lines 401-404 and 594-603: closeModal and the upload returned.
UploadClosed ==
  /\ proc.pc = "uploadCharacterImage" /\ proc.at = "close"
  /\ proc' = AfterUpload([proc EXCEPT !.at = "none",
                                      !.uploadExit = "returned"])
  /\ UNCHANGED <<runVars, dlVars, pageVars>>

\* addLastImageToPrompt (439-480) returned found; line 598 drops the value.
ChainDone(found) ==
  /\ proc.pc = "addLastImageToPrompt"
  /\ proc' = EnterPhase([proc EXCEPT !.chained =
                                       IF found THEN "true" ELSE "false"],
                        "writePrompt")
  /\ UNCHANGED <<runVars, dlVars, pageVars>>

\* writePrompt (258-280) throws without a textarea.
WritePromptDone(outcome) ==
  /\ proc.pc = "writePrompt"
  /\ proc' = IF outcome = "ok" THEN EnterPhase(proc, "clickCreate")
             ELSE EndAttempt(proc, "thrown")
  /\ UNCHANGED <<runVars, dlVars, pageVars>>

\* clickCreate (485-493) throws without a Create button; after the click
\* waitForGenerationComplete reads initialCount (lines 500-504).
ClickCreateDone(outcome) ==
  /\ proc.pc = "clickCreate"
  /\ proc' = IF outcome = "ok"
               THEN [EnterPhase(proc, "waitForGenerationComplete") EXCEPT
                       !.ownDue = TRUE, !.newSince = 0]
             ELSE EndAttempt(proc, "thrown")
  /\ UNCHANGED <<runVars, dlVars, pageVars>>

\* currentImages.length > initialCount (lines 511, 537).
CountRose(p) == p.newSince > 0

\* An image comes onto the page: that of the attempt under way (own), while
\* it waits, or that of an earlier attempt whose wait timed out.
ArtifactArrives(own) ==
  /\ IF own THEN proc.pc = "waitForGenerationComplete" /\ proc.ownDue
            ELSE proc.lateDue > 0
  /\ LET p == IF own THEN [proc EXCEPT !.ownDue = FALSE, !.ownArrived = TRUE]
                     ELSE [proc EXCEPT !.lateDue = @ - 1]
     IN proc' = IF proc.pc = "waitForGenerationComplete"
                  THEN [p EXCEPT !.newSince = @ + 1] ELSE p
  /\ UNCHANGED <<runVars, dlVars, pageVars>>

\* Lines 610-616: the result of waitForGenerationComplete. It resolves true
\* only when the count rose; it may resolve false even then, when the poll
\* first looks after the deadline (lines 527-532).
GenerationWaited(success) ==
  /\ proc.pc = "waitForGenerationComplete"
  /\ success => CountRose(proc)
  /\ proc' = EndAttempt(proc, IF success THEN "ok" ELSE "timeout")
  /\ UNCHANGED <<runVars, dlVars, pageVars>>

\* Lines 621-623 and the next pass of the loop.
StepBackoffDone ==
  /\ proc.pc = "backoff"
  /\ proc' = NextAttempt(proc)
  /\ UNCHANGED <<runVars, dlVars, pageVars>>

\* ------------------------------------------------------------- specification
InitDL ==
  /\ isDownloading = FALSE
  /\ queue = <<>>
  /\ completed = 0
  /\ total = 0
  /\ prefix = "story"
  /\ delay = 500
  /\ dl = NoDownload
  /\ dlResponse = [success |-> FALSE, total |-> 0, whileActive |-> FALSE]
  /\ dlRun = [tasks |-> <<>>, prefix |-> "story", delay |-> 500,
              afterDrain |-> FALSE]
  /\ saved = <<>>
  /\ dlEvents = <<>>

InitRun ==
  /\ isRunning = FALSE
  /\ isPaused = FALSE
  /\ currentIndex = 0
  /\ promptsLen = 0
  /\ settingsRetries = 3
  /\ loops = [l \in LoopIds |-> NoLoop]
  /\ emitted = [l \in LoopIds |-> <<>>]
  /\ nStarted = 0
  /\ status = "Idle"
  /\ pageImages = 0
  /\ generatedImages = <<>>
  /\ attached = TRUE
  /\ popup = NoPopup
  /\ unheard = 0

InitPage ==
  /\ wait = NoWait
  /\ present = 0
  /\ late = FALSE
  /\ domImages = <<>>
  /\ imagesResponse = [done |-> FALSE, images |-> <<>>]

InitSteps == proc = NoProc

Init == InitRun /\ InitDL /\ InitPage /\ InitSteps

\* settings.retries as the popup's form sends it: README "Max retries on
\* error", default 3, at least 1.
Next ==
  \/ \E n \in 1..MaxPrompts, r \in 1..MaxRetries : StartRun(n, r)
  \/ PauseRun
  \/ ResumeRun
  \/ StopRun
  \/ \E l \in LoopIds, o \in {"ok", "timeout", "thrown"} : AttemptDone(l, o)
  \/ \E l \in LoopIds : BackoffDone(l)
  \/ \E l \in LoopIds : DelayDone(l)
  \/ \E l \in LoopIds : PauseWaitDone(l)

Spec == Init /\ [][Next]_vars

\* One START_GENERATION only: a run that is never restarted.
StartFirst(n, r) == nStarted = 0 /\ StartRun(n, r)

NextSolo ==
  \/ \E n \in 1..MaxPrompts, r \in 1..MaxRetries : StartFirst(n, r)
  \/ PauseRun
  \/ ResumeRun
  \/ StopRun
  \/ \E l \in LoopIds, o \in {"ok", "timeout", "thrown"} : AttemptDone(l, o)
  \/ \E l \in LoopIds : BackoffDone(l)
  \/ \E l \in LoopIds : DelayDone(l)
  \/ \E l \in LoopIds : PauseWaitDone(l)

SpecSolo == Init /\ [][NextSolo]_vars

\* One START_GENERATION with any retries value parseInt can produce that the
\* loop condition tells apart: 0 stands for every value below 1 and for NaN.
NextAnyRetries ==
  \/ \E n \in 1..MaxPrompts, r \in 0..MaxRetries : StartFirst(n, r)
  \/ PauseRun
  \/ ResumeRun
  \/ StopRun
  \/ \E l \in LoopIds, o \in {"ok", "timeout", "thrown"} : AttemptDone(l, o)
  \/ \E l \in LoopIds : BackoffDone(l)
  \/ \E l \in LoopIds : DelayDone(l)
  \/ \E l \in LoopIds : PauseWaitDone(l)
  \/ \E l \in LoopIds : ItemReturned(l)

SpecAnyRetries == Init /\ [][NextAnyRetries]_vars

\* The scheduling the code relies on. Every await of the loop is on a timer
\* (sleep) or on a wait that settles by its own timeout at the latest, so the
\* continuation an invocation is suspended at (one at a time) eventually
\* runs: weak fairness. The pause wait re-arms its 500 ms timer for as long
\* as isPaused is set, so its poll recurs forever and meets one of any
\* infinitely many unpaused periods: strong fairness. The user answers every
\* pause with RESUME_GENERATION or STOP_GENERATION.
Continuation(l) ==
  \/ \E o \in {"ok", "timeout", "thrown"} : AttemptDone(l, o)
  \/ BackoffDone(l)
  \/ DelayDone(l)
  \/ ItemReturned(l)

LoopFairness(l) ==
  /\ WF_vars(Continuation(l))
  /\ SF_vars(PauseWaitDone(l))
  /\ WF_vars(isPaused /\ (ResumeRun \/ StopRun))

\* StartFirst starts invocation 1 and no other.
SpecAnyRetriesFair == Init /\ [][NextAnyRetries]_vars /\ LoopFairness(1)

\* Two START_GENERATION messages with longer prompt lists and the smallest
\* retry budget: the earlier invocation can be two items ahead of the later.
MaxPromptsLong == 3

NextLong ==
  \/ \E n \in 1..MaxPromptsLong : StartRun(n, 1)
  \/ PauseRun
  \/ ResumeRun
  \/ StopRun
  \/ \E l \in LoopIds, o \in {"ok", "timeout"} : AttemptDone(l, o)
  \/ \E l \in LoopIds : DelayDone(l)
  \/ \E l \in LoopIds : PauseWaitDone(l)

SpecLong == Init /\ [][NextLong]_vars

\* The wait primitives against a changing page.
NextWait ==
  \/ \E k \in WaitKinds, m \in 1..MaxElems :
       WaitCall(k, IF k = "elements" THEN m ELSE 1)
  \/ \E p \in 0..MaxElems, notified \in BOOLEAN : PageChanges(p, notified)
  \/ DeadlinePasses
  \/ TimerTick

SpecWait == Init /\ [][NextWait]_vars

\* extractAllImages on every page of up to MaxImages images, each inside an
\* element with data-index 0..MaxOrder or inside none.
MaxImages == 3
MaxOrder == 2

ImgKinds ==
  {[hasIndex |-> FALSE, dataIndex |-> 0]} \cup
  {[hasIndex |-> TRUE, dataIndex |-> d] : d \in 0..MaxOrder}

DomLists == UNION {[1..n -> ImgKinds] : n \in 0..MaxImages}

WithUrls(f) ==
  [k \in 1..Len(f) |->
     [url |-> k, hasIndex |-> f[k].hasIndex, dataIndex |-> f[k].dataIndex]]

InitExtract ==
  /\ InitRun
  /\ InitDL
  /\ wait = NoWait
  /\ present = 0
  /\ late = FALSE
  /\ \E f \in DomLists : domImages = WithUrls(f)
  /\ imagesResponse = [done |-> FALSE, images |-> <<>>]
  /\ InitSteps

NextExtract == GetAllImages

SpecExtract == InitExtract /\ [][NextExtract]_vars

NextDL ==
  \/ \E s \in Sources, n \in 1..MaxTasks, p \in {"", "tale"}, d \in {0, 100} :
       DownloadImages(s, n, p, d)
  \/ \E o \in {"ok", "failed", "thrown"} : DownloadDone(o)
  \/ DownloadSleepDone

SpecDL == Init /\ [][NextDL]_vars

\* DOWNLOAD_IMAGES only when no download run is active.
DownloadImagesWhenIdle(s, n, p, d) ==
  ~isDownloading /\ DownloadImages(s, n, p, d)

NextDLSolo ==
  \/ \E s \in Sources, n \in 1..MaxTasks, p \in {"", "tale"}, d \in {0, 100} :
       DownloadImagesWhenIdle(s, n, p, d)
  \/ \E o \in {"ok", "failed", "thrown"} : DownloadDone(o)
  \/ DownloadSleepDone

SpecDLSolo == Init /\ [][NextDLSolo]_vars

\* One run and download runs one after the other, with a popup that is
\* closed and opened again at any time.
NextListen ==
  \/ \E n \in 1..MaxPrompts, r \in {1, 2} : StartFirst(n, r)
  \/ PauseRun
  \/ ResumeRun
  \/ StopRun
  \/ \E l \in LoopIds, o \in {"ok", "timeout", "thrown"} : AttemptDone(l, o)
  \/ \E l \in LoopIds : BackoffDone(l)
  \/ \E l \in LoopIds : DelayDone(l)
  \/ \E l \in LoopIds : PauseWaitDone(l)
  \/ PopupCloses
  \/ PopupOpens
  \/ \E n \in 1..MaxTasks : DownloadImagesWhenIdle("p", n, "", 0)
  \/ \E o \in {"ok", "failed"} : DownloadDone(o)
  \/ DownloadSleepDone

SpecListen == Init /\ [][NextListen]_vars

\* One processPrompt call after another, for any item and retries 1..2.
NextSteps ==
  \/ \E i \in 0..(MaxPrompts - 1), r \in 1..2 : ProcessPrompt(i, r)
  \/ ClearPromptDone
  \/ \E a \in BOOLEAN, f \in BOOLEAN : UploadLocated(a, f)
  \/ \E f \in BOOLEAN : UploadModalWaited(f)
  \/ \E f \in BOOLEAN : UploadLastLook(f)
  \/ UploadGaveUp
  \/ \E o \in {"ok", "thrown"} : UploadDelivered(o)
  \/ UploadSettled
  \/ UploadClosed
  \/ \E f \in BOOLEAN : ChainDone(f)
  \/ \E o \in {"ok", "thrown"} : WritePromptDone(o)
  \/ \E o \in {"ok", "thrown"} : ClickCreateDone(o)
  \/ \E ok \in BOOLEAN : GenerationWaited(ok)
  \/ \E own \in BOOLEAN : ArtifactArrives(own)
  \/ StepBackoffDone

SpecSteps == Init /\ [][NextSteps]_vars

\* The popup drives one run after another through its buttons, with the
\* smallest retry budget; a message to the content script may fail to arrive;
\* the popup may be closed and opened.
NextPopup ==
  \/ \E n \in 1..MaxPrompts, d \in BOOLEAN : startGeneration(n, 1, d)
  \/ \E d \in BOOLEAN : pauseGeneration(d)
  \/ \E d \in BOOLEAN : resumeGeneration(d)
  \/ \E d \in BOOLEAN : stopGeneration(d)
  \/ \E l \in LoopIds, o \in {"ok", "timeout"} : AttemptDone(l, o)
  \/ \E l \in LoopIds : DelayDone(l)
  \/ \E l \in LoopIds : PauseWaitDone(l)
  \/ PopupCloses
  \/ PopupOpens

SpecPopup == Init /\ [][NextPopup]_vars

\* ------------------------------------------------------------- properties
\* The `current` values of the Progress events of an event list, in order.
RECURSIVE ProgressCurrents(_)
ProgressCurrents(ev) ==
  IF ev = <<>> THEN <<>>
  ELSE IF Head(ev).type = "Progress"
    THEN <<Head(ev).current>> \o ProgressCurrents(Tail(ev))
    ELSE ProgressCurrents(Tail(ev))

RECURSIVE CountType(_, _)
CountType(ev, t) ==
  IF ev = <<>> THEN 0
  ELSE (IF Head(ev).type = t THEN 1 ELSE 0) + CountType(Tail(ev), t)

\* Invocation l returned without a STOP_GENERATION during its life.
NaturalCompletion(l) == loops[l].pc = "done" /\ ~loops[l].stopSeen

\* C1 as stated: a run of N prompts that completes without stop or restart
\* has emitted exactly N+1 Progress events, with current = 0, 1, ..., N.
C1_ProgressCountOriginal ==
  \A l \in LoopIds :
    (nStarted = 1 /\ NaturalCompletion(l)) =>
      ProgressCurrents(emitted[l]) = [k \in 1..(loops[l].n + 1) |-> k - 1]

\* C1 amended: a run of N prompts that completes without stop or restart has
\* emitted exactly 2N Progress events, one before and one after each item;
\* their current values are 0,1,1,2,...,N-1,N: non-decreasing from 0 to N,
\* item i contributing i and then i+1.
C1_ProgressCount ==
  \A l \in LoopIds :
    (nStarted = 1 /\ NaturalCompletion(l)) =>
      ProgressCurrents(emitted[l]) = [k \in 1..(2 * loops[l].n) |-> k \div 2]

C1_Witness ==
  /\ nStarted = 1
  /\ NaturalCompletion(1)
  /\ loops[1].n = MaxPrompts
  /\ loops[1].lastTried >= 1

\* C2: once a later START_GENERATION has arrived, the earlier invocation
\* begins no further item (only the restarted run continues).
C2_EarlierRunStops ==
  \A l \in LoopIds :
    loops[l].restartAt >= 0 => Begun(l) = loops[l].restartAt

\* C3: a DOWNLOAD_IMAGES request received while a download run is active is
\* answered with failure.
C3_RejectedWhileActive ==
  dlResponse.whileActive => ~dlResponse.success

\* C4: while a download run is active, its task list, prefix, delay and total
\* are those it was started with, whatever requests arrive meanwhile; the
\* run downloads the tasks it was started with, in order, under the prefix it
\* was started with.
C4_ActiveRunUntouched ==
  /\ isDownloading =>
        /\ queue = dlRun.tasks
        /\ prefix = dlRun.prefix
        /\ delay = dlRun.delay
        /\ total = Len(dlRun.tasks)
  /\ Len(saved) <= Len(dlRun.tasks)
  /\ \A k \in 1..Len(saved) :
        k <= Len(dlRun.tasks) =>
          /\ saved[k].task = dlRun.tasks[k]
          /\ saved[k].file.prefix = dlRun.prefix

\* C5: after PAUSE_GENERATION arrived while item i was in flight, and until a
\* RESUME_GENERATION or STOP_GENERATION arrives, the invocation begins no
\* item beyond i (no start-of-item Progress for i+1).
C5_PauseBlocksNextItem ==
  \A l \in LoopIds :
    loops[l].heldAt >= 0 => Begun(l) <= loops[l].heldAt + 1

\* C6: after STOP_GENERATION arrived while the invocation was blocked in the
\* pause wait, it begins no further item: it is still in that wait or has
\* returned.
C6_StopInPauseTerminates ==
  \A l \in LoopIds :
    loops[l].stopInPauseAt >= 0 =>
      /\ Begun(l) = loops[l].stopInPauseAt
      /\ loops[l].pc \in {"pausewait", "done"}

\* C7: processPrompt stops at the first successful attempt or after
\* maxAttempts failed ones: a successful item saw j < maxAttempts failures
\* and exactly j+1 attempts; a failed item saw exactly maxAttempts attempts,
\* all failed. No item in flight is beyond its attempt budget.
C7_RetryBudget ==
  \A l \in LoopIds :
    LET L == loops[l]
    IN /\ L.lastItem >= 0 =>
            /\ L.lastSuccess =>
                 (L.lastTried = L.lastFails + 1 /\ L.lastFails < L.lastRetries)
            /\ ~L.lastSuccess =>
                 (L.lastTried = L.lastRetries /\ L.lastFails = L.lastRetries)
       /\ InFlight(L) => (L.tried = L.attempt /\ L.attempt <= L.retries)

C7_Witness ==
  \E l \in LoopIds :
    /\ loops[l].lastItem >= 0
    /\ loops[l].lastSuccess
    /\ loops[l].lastRetries = MaxRetries
    /\ loops[l].lastFails = MaxRetries - 1

\* C8: the latest run, having returned without any STOP_GENERATION during its
\* life, has begun every one of its N items.
C8_AllItemsAttempted ==
  nStarted >= 1 =>
    (NaturalCompletion(nStarted) => Begun(nStarted) = loops[nStarted].n)

\* The flags that implement each status.
StatusAgrees ==
  /\ (status = "Running") = (isRunning /\ ~isPaused)
  /\ (status = "Paused") = (isRunning /\ isPaused)
  /\ (status \in {"Idle", "Stopped", "Completed"}) = ~isRunning

\* The five listed transitions; a start after a terminal state begins a new
\* run the way the start from Idle does.
ListedTransitions ==
  { <<"Idle", "Running">>, <<"Stopped", "Running">>, <<"Completed", "Running">>,
    <<"Running", "Paused">>, <<"Paused", "Running">>,
    <<"Running", "Stopped">>, <<"Paused", "Stopped">>,
    <<"Running", "Completed">> }

\* C9 as stated: every change of the run status is one of the listed
\* transitions, so Completed is entered from Running only.
C9_TransitionsOriginal ==
  [][status' # status => <<status, status'>> \in ListedTransitions]_vars

\* C9 amended: every change of the run status is one of the listed
\* transitions or Paused -> Completed (a pause received during the last item
\* does not hold back completion); the status always agrees with the
\* isRunning/isPaused flags; a pause or resume received when no run is active
\* leaves the status as it is.
C9_Transitions ==
  [][/\ status' # status =>
          <<status, status'>> \in
             ListedTransitions \cup { <<"Paused", "Completed">> }
     /\ StatusAgrees'
     /\ (~isRunning /\ (PauseRun \/ ResumeRun)) =>
          (status' = status /\ ~isRunning')]_vars

C9_Witness ==
  /\ nStarted = 1
  /\ loops[1].pc = "done"
  /\ loops[1].n >= 1
  /\ loops[1].heldAt = loops[1].n - 1
  /\ status = "Completed"
  /\ isPaused

\* C10: each invocation emits GenerationComplete exactly once, when it
\* returns (after its loop was left by break or by exhausting the items), and
\* it is the last event the invocation emits.
C10_CompleteOnceAndLast ==
  \A l \in LoopIds :
    LET ev == emitted[l]
        k  == CountType(ev, "Complete")
    IN /\ k <= 1
       /\ (loops[l].pc = "done") = (k = 1)
       /\ k = 1 => ev[Len(ev)].type = "Complete"

C10_Witness ==
  \E l \in LoopIds :
    /\ loops[l].pc = "done"
    /\ loops[l].stopSeen
    /\ CountType(emitted[l], "Progress") >= 2
    /\ CountType(emitted[l], "Error") >= 1

\* C11: between a START_GENERATION and the terminal state of the run it
\* started, no write lowers currentIndex.
C11_IndexNeverLowered ==
  [][(nStarted >= 1 /\ nStarted' = nStarted /\ Alive(loops[nStarted]))
       => currentIndex' >= currentIndex]_vars

\* C12: once an item has completed, the number of recorded results equals
\* currentIndex (the index of the next unprocessed item).
C12_ResultsMatchIndex ==
  (nStarted = 1 /\ loops[1].lastItem >= 0) =>
    Len(generatedImages) = currentIndex

\* The items an invocation has begun, in order: the item of each of its
\* start-of-item Progress events.
RECURSIVE StartedItems(_)
StartedItems(ev) ==
  IF ev = <<>> THEN <<>>
  ELSE IF Head(ev).type = "Progress" /\ Head(ev).current = Head(ev).item
    THEN <<Head(ev).item>> \o StartedItems(Tail(ev))
    ELSE StartedItems(Tail(ev))

\* C13: in a run that is not restarted each index begins processing at most
\* once: the items begun are 0, 1, 2, ... in this order, without repetition,
\* and processPrompt is entered once for each.
C13_EachIndexOnce ==
  \A l \in LoopIds :
    LET started == StartedItems(emitted[l])
    IN /\ started = [k \in 1..Len(started) |-> k - 1]
       /\ Len(started) <= loops[l].n
       /\ Alive(loops[l]) => loops[l].i \in {Len(started) - 1, Len(started)}

C13_Witness ==
  /\ loops[1].pc = "done"
  /\ StartedItems(emitted[1]) = [k \in 1..MaxPrompts |-> k - 1]
  /\ loops[1].lastFails >= 1

\* The decimal numeral of k < 1000 written with three digits.
ThreeDigits(k) == <<(k \div 100) % 10, (k \div 10) % 10, k % 10>>

\* C14: the task at enqueue position i (0-based) of a download run is saved
\* under <prefix of the run>_<i+1 with three digits>.png, whatever the
\* outcomes of the downloads.
C14_FilenameByPosition ==
  \A j \in 1..Len(saved), k \in 1..Len(dlRun.tasks) :
    saved[j].task = dlRun.tasks[k] =>
      saved[j].file = [prefix |-> dlRun.prefix, sep |-> "_",
                       num |-> ThreeDigits(k), ext |-> ".png"]

\* The tasks a download run has attempted, in order.
AttemptedTasks == [k \in 1..Len(saved) |-> saved[k].task]

\* A download run was started and has drained.
Drained == ~isDownloading /\ dlRun.tasks # <<>>

\* C16: a drained download run has attempted every one of its tasks exactly
\* once, in enqueue order, whatever failed, and its DownloadComplete event
\* carries the number of downloads that succeeded.
C16_FailureDoesNotAbort ==
  Drained =>
    /\ AttemptedTasks = dlRun.tasks
    /\ dlEvents # <<>>
    /\ dlEvents[Len(dlEvents)] =
         DownloadCompleteEv(Cardinality({k \in 1..Len(saved) : saved[k].ok}))

\* C17: a request that arrives after a download run has drained starts a new
\* run, with the request's own tasks and total, and that run attempts all of
\* its own tasks.
C17_AcceptedAfterDrain ==
  dlRun.afterDrain =>
    /\ isDownloading =>
         (total = Len(dlRun.tasks) /\ Len(saved) <= Len(dlRun.tasks)
          /\ AttemptedTasks = SubSeq(dlRun.tasks, 1, Len(saved)))
    /\ ~isDownloading =>
         (AttemptedTasks = dlRun.tasks /\ Len(dlEvents) >= 1)

\* C18: after a download run has completed, and until another starts, the
\* queue is empty and the status query reports a completed count of zero.
C18_ResetAfterCompletion ==
  Drained => (queue = <<>> /\ DownloadStatus.completed = 0)

\* The order of each img of the page as extractAllImages reads it.
DomOrders ==
  [k \in 1..Len(domImages) |-> ImageData(domImages[k], k - 1).order]

\* C15: the list extractAllImages returns is in non-decreasing order of
\* `order`, whatever the DOM order, and holds exactly the images found: one
\* entry per img, each with that img's url and order.
C15_SortedByOrder ==
  imagesResponse.done =>
    LET out == imagesResponse.images
    IN /\ \A j, k \in 1..Len(out) : j < k => out[j].order <= out[k].order
       /\ Len(out) = Len(domImages)
       /\ {out[k].index : k \in 1..Len(out)} = 0..(Len(domImages) - 1)
       /\ \A k \in 1..Len(out) :
            /\ out[k].url = domImages[out[k].index + 1].url
            /\ out[k].order = DomOrders[out[k].index + 1]

C15_Witness ==
  /\ imagesResponse.done
  /\ DomOrders = <<2, 0, 1>>
  /\ [k \in 1..3 |-> imagesResponse.images[k].order] = <<0, 1, 2>>
  /\ [k \in 1..3 |-> imagesResponse.images[k].url] = <<2, 3, 1>>

\* C19: a wait (waitForElement, waitForElements, waitForAnyElement) whose
\* condition holds at call time is resolved Satisfied by the call itself,
\* without observe() and without setInterval().
C19_ImmediateWhenTrue ==
  (wait.called /\ wait.trueAtCall
     /\ wait.kind \in {"element", "elements", "any"}) =>
    /\ wait.resolved /\ wait.value = "found" /\ wait.via = "call"
    /\ ~wait.subscribed /\ ~wait.timerStarted
    /\ ~wait.observer /\ ~wait.timer

C19_Witness ==
  /\ wait.called /\ wait.trueAtCall
  /\ wait.kind = "elements" /\ wait.minCount = MaxElems
  /\ wait.resolved

\* C20: a wait (waitForElement, waitForAnyElement,
\* waitForGenerationComplete) whose condition was never true from the call
\* on stays pending until the deadline has passed and is then resolved
\* TimedOut (null / false) by its timer; once it is resolved neither its
\* observer nor its timer is active.
C20_TimedOutAndCleanedUp ==
  (wait.called /\ ~wait.everTrue
     /\ wait.kind \in {"element", "any", "generation"}) =>
    /\ wait.resolved =>
         (wait.value = "empty" /\ wait.via = "timer" /\ late
          /\ ~wait.observer /\ ~wait.timer)
    /\ ~wait.resolved => (wait.observer /\ wait.timer)

C20_Witness ==
  /\ wait.called /\ ~wait.everTrue /\ wait.resolved
  /\ wait.kind = "generation"
  /\ wait.initialCount >= 1
  /\ wait.logs = <<"timeout">>

\* What a segment leaves behind in the emitter: everything but the presence
\* of the popup and the count of unobserved rejections.
EmitterPart(c) == [c EXCEPT !.att = TRUE, !.lost = 0]
WithPopup(c) == [c EXCEPT !.att = TRUE]
WithoutPopup(c) == [c EXCEPT !.att = FALSE]

\* C21: whatever segment of the run loop or of the download queue runs next,
\* it takes the emitter to the same state and emits the same events with the
\* popup absent as with the popup present; the only Error events are those
\* of failed items (never fatal).
C21_EmissionNeverFails ==
  /\ \A l \in LoopIds :
       LET c == Ctx(l)
           pc == loops[l].pc
       IN /\ pc = "attempt" =>
               \A o \in {"ok", "timeout", "thrown"} :
                 EmitterPart(AttemptEnd(WithPopup(c), o)) =
                   EmitterPart(AttemptEnd(WithoutPopup(c), o))
          /\ pc = "backoff" =>
               EmitterPart(BackoffEnd(WithPopup(c))) =
                 EmitterPart(BackoffEnd(WithoutPopup(c)))
          /\ pc = "delay" =>
               EmitterPart(DelayEnd(WithPopup(c))) =
                 EmitterPart(DelayEnd(WithoutPopup(c)))
          /\ pc = "pausewait" =>
               EmitterPart(PauseWake(WithPopup(c))) =
                 EmitterPart(PauseWake(WithoutPopup(c)))
          /\ \A k \in 1..Len(emitted[l]) :
               emitted[l][k].type = "Error" => ~emitted[l][k].fatal
  /\ nStarted = 0 =>
       \A n \in 1..MaxPrompts :
         EmitterPart(ForLoop(WithPopup(StartCtx(n, 1)))) =
           EmitterPart(ForLoop(WithoutPopup(StartCtx(n, 1))))
  /\ dl.pc = "downloading" =>
       \A o \in {"ok", "failed", "thrown"} :
         WithPopup(DlItemEnd(WithPopup(DlCtx), o)) =
           WithPopup(DlItemEnd(WithoutPopup(DlCtx), o))
  /\ dl.pc = "sleeping" =>
       WithPopup(DlSleepEnd(WithPopup(DlCtx))) =
         WithPopup(DlSleepEnd(WithoutPopup(DlCtx)))

C21_Witness ==
  /\ ~attached
  /\ unheard >= 3
  /\ loops[1].pc = "done"
  /\ ~loops[1].stopSeen
  /\ loops[1].n = MaxPrompts
  /\ Drained
  /\ Len(dlEvents) >= 2

\* C22: a resolved wait, whichever way it was resolved, has neither its
\* observer connected nor its timer set.
C22_NothingLeftAfterResolve ==
  wait.resolved => (~wait.observer /\ ~wait.timer)

\* C23: a wait (waitForElement, waitForAnyElement,
\* waitForGenerationComplete) whose condition came to hold before the
\* deadline and went on holding is resolved Satisfied, not TimedOut, whether
\* or not any change notification was delivered.
C23_PollFindsUnnotifiedChange ==
  (wait.resolved /\ wait.heldInTime
     /\ wait.kind \in {"element", "any", "generation"}) =>
    wait.value = "found"

\* C24: after STOP_GENERATION arrived while item i was in flight, in a run
\* that is not restarted, item i runs its course (its attempts go on until
\* success or until the retry budget is spent, and its end-of-item Progress
\* is emitted), no item beyond i begins, and the loop is left at the next
\* checkpoint: the invocation never enters the pause wait and returns with
\* i + 1 as its index.
C24_StopTakesEffectAtCheckpoint ==
  \A l \in LoopIds :
    LET L == loops[l]
        i == L.stopInFlightAt
    IN i >= 0 =>
         /\ Begun(l) = i + 1
         /\ L.pc \in {"attempt", "backoff", "delay", "done"}
         /\ L.pc \in {"attempt", "backoff"} => L.i = i
         /\ L.pc \in {"delay", "done"} =>
              /\ L.lastItem = i
              /\ L.lastSuccess \/ L.lastTried = L.lastRetries
              /\ ProgressCurrents(emitted[l])
                   [Len(ProgressCurrents(emitted[l]))] = i + 1
         /\ L.pc = "done" => L.i = i + 1

C24_Witness ==
  /\ loops[1].stopInFlightAt = 0
  /\ loops[1].n = MaxPrompts
  /\ loops[1].pc = "done"
  /\ loops[1].lastFails >= 1
  /\ loops[1].lastSuccess

PhaseOrder(i) ==
  IF i = 0
    THEN <<"clearPrompt", "uploadCharacterImage", "writePrompt",
           "clickCreate", "waitForGenerationComplete">>
    ELSE <<"clearPrompt", "uploadCharacterImage", "addLastImageToPrompt",
           "writePrompt", "clickCreate", "waitForGenerationComplete">>

IsPrefix(s, t) == Len(s) <= Len(t) /\ s = SubSeq(t, 1, Len(s))

C27_CloseModalOnEveryExit ==
  proc.uploadExit # "none" => proc.closeModalCalls >= 1

\* Error events of invocation l that name item i.
ErrorsFor(l, i) ==
  Cardinality({k \in DOMAIN emitted[l] :
                 emitted[l][k].type = "Error" /\ emitted[l][k].item = i})

\* C28: an item that has ended has an Error event exactly if all the attempts
\* of its budget failed, and then exactly one; an item still in flight has
\* none; every Error event has fatal = false and leaves a popup that shows a
\* running (or paused) run as it is.
C28_ErrorIffExhausted ==
  \A l \in LoopIds :
    LET L == loops[l]
    IN /\ \A k \in DOMAIN emitted[l] :
            emitted[l][k].type = "Error" =>
              /\ ~emitted[l][k].fatal
              /\ \A pz \in BOOLEAN :
                   handleMessage([isRunning |-> TRUE, isPaused |-> pz],
                                 emitted[l][k])
                     = [isRunning |-> TRUE, isPaused |-> pz]
       /\ \A i \in 0..(L.n - 1) : ErrorsFor(l, i) <= 1
       /\ L.lastItem >= 0 =>
            /\ (ErrorsFor(l, L.lastItem) = 1) <=>
                 (L.lastFails = L.lastRetries)
            /\ (L.lastFails = L.lastRetries) <=> ~L.lastSuccess
       /\ L.pc \in {"attempt", "backoff", "resolved"} =>
            ErrorsFor(l, L.i) = 0

C28_Witness ==
  /\ loops[1].pc = "done"
  /\ loops[1].n = MaxPrompts
  /\ ErrorsFor(1, 0) = 1
  /\ loops[1].lastItem = 1
  /\ loops[1].lastSuccess
  /\ ErrorsFor(1, 1) = 0
  /\ loops[1].lastFails >= 1

\* C29 as stated: the Error event of an item never precedes the item's
\* end-of-item Progress event.
C29_ErrorAfterProgressOriginal ==
  \A l \in LoopIds : \A k \in DOMAIN emitted[l] :
    emitted[l][k].type = "Error" =>
      \E j \in 1..(k - 1) :
        emitted[l][j] = ProgressEv(emitted[l][k].item + 1, emitted[l][k].item)

\* C29: the events of an item are, in order, Progress(i) before the retry
\* sequence, then the Error event if the item failed, then Progress(i + 1)
\* whatever the outcome; the Error event comes immediately before
\* Progress(i + 1).
C29_EventOrder ==
  \A l \in LoopIds :
    LET ev == emitted[l]
        L  == loops[l]
    IN /\ \A k \in DOMAIN ev :
            LET i == ev[k].item
            IN /\ ev[k].type = "Error" =>
                    /\ k < Len(ev)
                    /\ ev[k + 1] = ProgressEv(i + 1, i)
                    /\ \E j \in 1..(k - 1) : ev[j] = ProgressEv(i, i)
               /\ ev[k] = ProgressEv(i + 1, i) =>
                    /\ \E j \in 1..(k - 1) : ev[j] = ProgressEv(i, i)
                    /\ (k > 1 /\ ev[k - 1].type = "Error") =>
                         ev[k - 1].item = i
       /\ L.lastItem >= 0 =>
            \E k \in DOMAIN ev :
              /\ ev[k] = ProgressEv(L.lastItem + 1, L.lastItem)
              /\ ~L.lastSuccess <=> (k > 1 /\ ev[k - 1].type = "Error")

C29_Witness ==
  /\ loops[1].pc = "done"
  /\ loops[1].n = MaxPrompts
  /\ Len(emitted[1]) = 6
  /\ emitted[1][1] = ProgressEv(0, 0)
  /\ emitted[1][2] = ErrorEv(1, 0, FALSE)
  /\ emitted[1][3] = ProgressEv(1, 0)
  /\ emitted[1][4] = ProgressEv(1, 1)
  /\ emitted[1][5] = ProgressEv(2, 1)
  /\ emitted[1][6] = CompleteEv

\* The current values of the DOWNLOAD_PROGRESS events of the download run,
\* in emission order.
RECURSIVE DownloadCurrents(_)
DownloadCurrents(ev) ==
  IF ev = <<>> THEN <<>>
  ELSE (IF Head(ev).type = "DownloadProgress"
          THEN <<Head(ev).current>> ELSE <<>>)
       \o DownloadCurrents(Tail(ev))

RECURSIVE CountDl(_, _)
CountDl(ev, t) ==
  IF ev = <<>> THEN 0
  ELSE (IF Head(ev).type = t THEN 1 ELSE 0) + CountDl(Tail(ev), t)

\* C30: at every moment of a download run the DOWNLOAD_PROGRESS events are as
\* many as the downloads that succeeded so far, so each success added one and
\* no failure added any; their current values are 1, 2, ..., k in emission
\* order; DOWNLOAD_COMPLETE is sent once, when the run has drained, and is
\* the last event of the run.
C30_DownloadProgressPerSuccess ==
  LET k == Cardinality({j \in 1..Len(saved) : saved[j].ok})
  IN /\ DownloadCurrents(dlEvents) = [j \in 1..k |-> j]
     /\ CountDl(dlEvents, "DownloadComplete") = IF Drained THEN 1 ELSE 0
     /\ Drained => dlEvents[Len(dlEvents)].type = "DownloadComplete"

C30_Witness ==
  /\ Drained
  /\ Len(saved) = 2
  /\ ~saved[1].ok
  /\ saved[2].ok
  /\ Len(dlEvents) = 2
  /\ dlEvents[1].type = "DownloadProgress"
  /\ dlEvents[1].current = 1
  /\ dlEvents[2] = DownloadCompleteEv(1)

\* C31: once STOP_GENERATION has arrived for an invocation of the loop, that
\* invocation begins no further item, whatever arrives afterwards: the items
\* it has begun are those it had begun when the stop arrived.
C31_StopNeverLost ==
  \A l \in LoopIds :
    loops[l].stopAt >= 0 => Begun(l) = loops[l].stopAt

\* C32: downloadState.completed never exceeds downloadState.total, and no
\* DOWNLOAD_PROGRESS event carries a current above its total.
C32_CompletedWithinTotal ==
  /\ completed <= total
  /\ \A k \in DOMAIN dlEvents :
       dlEvents[k].type = "DownloadProgress" =>
         dlEvents[k].current <= dlEvents[k].total

\* C33: an attempt that ended in success saw the image of its own generation
\* come onto the page during its wait.
C33_SuccessByOwnArtifact ==
  proc.last.outcome = "ok" => proc.last.own

\* C34: a call of waitForGenerationComplete has logged nothing terminal
\* before it resolves, and from then on exactly one terminal log: "complete"
\* if it resolved true, "timeout" if it resolved false.
C34_OneTerminalLog ==
  (wait.called /\ wait.kind = "generation") =>
    wait.logs = IF ~wait.resolved THEN <<>>
                ELSE IF wait.value = "found" THEN <<"complete">>
                ELSE <<"timeout">>

\* C35: whenever the open popup shows a run as running, the content script
\* has a run: in particular the popup does not stay in the running state
\* after a START_GENERATION that did not arrive.
C35_PopupFollowsExecutor ==
  (attached /\ popup.isRunning) => isRunning

\* C36: whatever settings.retries is, an item that has an Error event had at
\* least one attempt begun before the event was sent.
C36_AttemptBeforeFailure ==
  \A l \in LoopIds :
    (loops[l].lastItem >= 0 /\ ErrorsFor(l, loops[l].lastItem) >= 1) =>
      loops[l].lastTried >= 1

=============================================================================
